---- MODULE Spec2Model ----
(***************************************************************************)
(* Ice Sheet Visualization System, python-backend/app.py.                  *)
(*                                                                         *)
(* A Flask application served thread-per-request: every request runs one   *)
(* handler in its own thread.  The shared state is the pair of module      *)
(* globals request_counter / concurrent_counter, the lock counter_lock and *)
(* the two module-level tables.  Strings are sequences of one-character    *)
(* strings so that str.upper() and str.strip() are computed; floats are    *)
(* exact decimals in units of 10^-7, held as little-endian base-10000      *)
(* digit sequences (the products exceed 32 bits).                          *)
(***************************************************************************)
EXTENDS Integers, Sequences, FiniteSets, TLC

VARIABLES
    request_counter,      \* app.py:25
    concurrent_counter,   \* app.py:26
    counter_lock,         \* app.py:27, 0 = free, otherwise the holding thread
    ICE_SHEET_DATA,       \* app.py:47, module-level dict
    TIME_PERIOD_SECONDS,  \* app.py:63, module-level dict
    pc,                   \* position of each request thread
    req,                  \* the request each thread serves
    local,                \* locals of calculate_mass_loss / get_health_status
    resp                  \* the response each thread returned

vars == <<request_counter, concurrent_counter, counter_lock, ICE_SHEET_DATA,
          TIME_PERIOD_SECONDS, pc, req, local, resp>>

----------------------------------------------------------------------------
(* Bounds *)

\* number of request threads of the concurrent specification
NumThreads == 2
\* number of requests the client of the sequential specification sends
NumClients == 1
\* time.time() returns a value in 0..MaxTime
MaxTime == 1

Threads == 1..NumThreads
Clients == 1..NumClients
AllThreads == Threads \cup Clients

\* a missing parameter (request.args.get returns None): no string holds the
\* element "None", so it differs from every string
None == <<"None">>

----------------------------------------------------------------------------
(* Strings *)

LowerCase == <<"a","b","c","d","e","f","g","h","i","j","k","l","m",
               "n","o","p","q","r","s","t","u","v","w","x","y","z">>
UpperCase == <<"A","B","C","D","E","F","G","H","I","J","K","L","M",
               "N","O","P","Q","R","S","T","U","V","W","X","Y","Z">>
Whitespace == {" ", "\t"}

\* str.upper() on one character
UpperChar(c) ==
    IF \E i \in 1..Len(LowerCase) : LowerCase[i] = c
    THEN UpperCase[CHOOSE i \in 1..Len(LowerCase) : LowerCase[i] = c]
    ELSE c

\* mutant: the parameter is parsed as sent, upper() forgotten
Upper_AsSent(s) == s

\* str.upper()
Upper(s) == [i \in 1..Len(s) |-> UpperChar(s[i])]

RECURSIVE LStrip(_)
LStrip(s) ==
    IF s # <<>> /\ Head(s) \in Whitespace THEN LStrip(Tail(s)) ELSE s

RECURSIVE RStrip(_)
RStrip(s) ==
    IF s # <<>> /\ s[Len(s)] \in Whitespace
    THEN RStrip(SubSeq(s, 1, Len(s) - 1)) ELSE s

\* str.strip()
Strip(s) == RStrip(LStrip(s))

\* mutant: `not x` alone, the strip() test forgotten
IsBlank_NoStrip(x) == x = None \/ x = <<>>

\* `not x or x.strip() == ""`
IsBlank(x) == x = None \/ x = <<>> \/ Strip(x) = <<>>

S_GREENLAND  == <<"G","R","E","E","N","L","A","N","D">>
S_ANTARCTICA == <<"A","N","T","A","R","C","T","I","C","A">>
S_ANNUAL     == <<"A","N","N","U","A","L">>
S_DECADE     == <<"D","E","C","A","D","E">>
S_CENTURY    == <<"C","E","N","T","U","R","Y">>

\* class IceSheetType(Enum): the members, named by their value
IceSheetTypeMembers == {"GREENLAND", "ANTARCTICA"}
\* class TimePeriod(Enum)
TimePeriodMembers == {"ANNUAL", "DECADE", "CENTURY"}

\* IceSheetType(value): the member with that value, or ValueError
IceSheetType(s) ==
    IF s = S_GREENLAND THEN "GREENLAND"
    ELSE IF s = S_ANTARCTICA THEN "ANTARCTICA"
    ELSE "ValueError"

\* TimePeriod(value)
TimePeriod(s) ==
    IF s = S_ANNUAL THEN "ANNUAL"
    ELSE IF s = S_DECADE THEN "DECADE"
    ELSE IF s = S_CENTURY THEN "CENTURY"
    ELSE "ValueError"

\* period.value
TimePeriodValue(p) ==
    CASE p = "ANNUAL"  -> S_ANNUAL
      [] p = "DECADE"  -> S_DECADE
      [] p = "CENTURY" -> S_CENTURY

----------------------------------------------------------------------------
(* Floats: [neg, mag], mag a little-endian base-10000 digit sequence with   *)
(* no leading zero digit, in units of 10^-7                                 *)

RECURSIVE Trim(_)
Trim(a) ==
    IF a # <<>> /\ a[Len(a)] = 0 THEN Trim(SubSeq(a, 1, Len(a) - 1)) ELSE a

Digit(a, i) == IF i <= Len(a) THEN a[i] ELSE 0

RECURSIVE AddFrom(_, _, _, _)
AddFrom(a, b, i, carry) ==
    IF i > Len(a) /\ i > Len(b)
    THEN (IF carry = 0 THEN <<>> ELSE <<carry>>)
    ELSE LET s == Digit(a, i) + Digit(b, i) + carry
         IN  <<s % 10000>> \o AddFrom(a, b, i + 1, s \div 10000)

MagAdd(a, b) == Trim(AddFrom(a, b, 1, 0))

\* a - b for a >= b
RECURSIVE SubFrom(_, _, _, _)
SubFrom(a, b, i, borrow) ==
    IF i > Len(a) THEN <<>>
    ELSE LET d == Digit(a, i) - Digit(b, i) - borrow
         IN  IF d < 0 THEN <<d + 10000>> \o SubFrom(a, b, i + 1, 1)
             ELSE <<d>> \o SubFrom(a, b, i + 1, 0)

MagSub(a, b) == Trim(SubFrom(a, b, 1, 0))

RECURSIVE LessFrom(_, _, _)
LessFrom(a, b, i) ==
    IF i = 0 THEN FALSE
    ELSE IF a[i] # b[i] THEN a[i] < b[i]
    ELSE LessFrom(a, b, i - 1)

MagLess(a, b) ==
    IF Len(a) # Len(b) THEN Len(a) < Len(b) ELSE LessFrom(a, b, Len(a))

\* a * d for one digit d
RECURSIVE ScaleFrom(_, _, _, _)
ScaleFrom(a, d, i, carry) ==
    IF i > Len(a) THEN (IF carry = 0 THEN <<>> ELSE <<carry>>)
    ELSE LET p == a[i] * d + carry
         IN  <<p % 10000>> \o ScaleFrom(a, d, i + 1, p \div 10000)

RECURSIVE MulFrom(_, _, _)
MulFrom(a, b, j) ==
    IF j > Len(b) THEN <<>>
    ELSE MagAdd(ScaleFrom(a, b[j], 1, 0), <<0>> \o MulFrom(a, b, j + 1))

MagMul(a, b) == Trim(MulFrom(a, b, 1))

Float(neg, mag) == [neg |-> neg /\ mag # <<>>, mag |-> mag]

\* abs(x)
Abs(x) == Float(FALSE, x.mag)

\* x * y, y a float holding a whole number of units 10^0 (the seconds)
FloatMul(secs, x) == Float(secs.neg # x.neg, MagMul(secs.mag, x.mag))

\* x - y
FloatSub(x, y) ==
    IF x.neg # y.neg THEN Float(x.neg, MagAdd(x.mag, y.mag))
    ELSE IF MagLess(x.mag, y.mag) THEN Float(~x.neg, MagSub(y.mag, x.mag))
    ELSE Float(x.neg, MagSub(x.mag, y.mag))

----------------------------------------------------------------------------
(* Module-level tables *)

\* ICE_SHEET_DATA as written at app.py:47-60
IceSheetDataLiteral ==
    [t \in IceSheetTypeMembers |->
        IF t = "ANTARCTICA"
        THEN [size_km2 |-> Float(FALSE, <<0, 0, 0, 140>>),
              melting_rate_kg_per_second |-> Float(TRUE, <<2036, 6998, 2>>),
              ambient_temperature |-> Float(TRUE, <<0, 7000, 5>>),
              name |-> "Antarctica"]
        ELSE [size_km2 |-> Float(FALSE, <<0, 0, 8000, 43>>),
              melting_rate_kg_per_second |-> Float(TRUE, <<670, 4364>>),
              ambient_temperature |-> Float(TRUE, <<0, 9450, 2>>),
              name |-> "Greenland"]]

\* TIME_PERIOD_SECONDS as written at app.py:63-67: whole seconds
TimePeriodSecondsLiteral ==
    [p \in TimePeriodMembers |->
        CASE p = "ANNUAL"  -> <<6000, 3153>>
          [] p = "DECADE"  -> <<0, 1536, 3>>
          [] p = "CENTURY" -> <<0, 5360, 31>>]

Raise(e)  == [ok |-> FALSE, value |-> e]
Return(v) == [ok |-> TRUE, value |-> v]

get_base_data(ice_sheet_type) ==
    IF ice_sheet_type \notin DOMAIN ICE_SHEET_DATA
    THEN Raise("ValueError")
    ELSE Return(ICE_SHEET_DATA[ice_sheet_type])

\* float(TIME_PERIOD_SECONDS[period]); the subscript raises KeyError
convert_period_to_seconds(period) ==
    IF period \notin DOMAIN TIME_PERIOD_SECONDS
    THEN Raise("KeyError")
    ELSE Return(Float(FALSE, TIME_PERIOD_SECONDS[period]))

\* mutant: the mass loss computed from the signed rate, abs() forgotten
CalculateBody_NoAbs(ice_sheet_type, period) ==
    LET base == get_base_data(ice_sheet_type)
    IN  IF ~base.ok THEN base
        ELSE LET secs == convert_period_to_seconds(period)
             IN  IF ~secs.ok THEN secs
                 ELSE LET base_data == base.value
                          mass_loss ==
                              FloatMul(secs.value,
                                       base_data.melting_rate_kg_per_second)
                      IN  Return([meltingRate |-> base_data.melting_rate_kg_per_second,
                                  massLoss |-> mass_loss,
                                  initialSize |-> base_data.size_km2,
                                  finalSize |-> FloatSub(base_data.size_km2, mass_loss),
                                  iceSheetName |-> base_data.name,
                                  period |-> TimePeriodValue(period)])

\* the try block of calculate_mass_loss
CalculateBody(ice_sheet_type, period) ==
    LET base == get_base_data(ice_sheet_type)
    IN  IF ~base.ok THEN base
        ELSE LET secs == convert_period_to_seconds(period)
             IN  IF ~secs.ok THEN secs
                 ELSE LET base_data == base.value
                          time_in_seconds == secs.value
                          mass_loss ==
                              FloatMul(time_in_seconds,
                                       Abs(base_data.melting_rate_kg_per_second))
                          initial_size == base_data.size_km2
                          final_size == FloatSub(initial_size, mass_loss)
                      IN  Return([meltingRate |-> base_data.melting_rate_kg_per_second,
                                  massLoss |-> mass_loss,
                                  initialSize |-> initial_size,
                                  finalSize |-> final_size,
                                  iceSheetName |-> base_data.name,
                                  period |-> TimePeriodValue(period)])

----------------------------------------------------------------------------
(* Requests *)

NoArgs == <<>>

Details(ice_sheet) ==
    [kind |-> "details", ice_sheet |-> ice_sheet, period |-> None, args |-> NoArgs]
Visualization(ice_sheet, period) ==
    [kind |-> "visualization", ice_sheet |-> ice_sheet, period |-> period,
     args |-> NoArgs]
Health == [kind |-> "health", ice_sheet |-> <<>>, period |-> None, args |-> NoArgs]
Root == [kind |-> "root", ice_sheet |-> <<>>, period |-> None, args |-> NoArgs]
\* calculate_mass_loss called as a function of the module, not through a route
Calculate(ice_sheet_type, period) ==
    [kind |-> "calculate", ice_sheet |-> <<>>, period |-> None,
     args |-> <<ice_sheet_type, period>>]
NoRequest == [kind |-> "none", ice_sheet |-> <<>>, period |-> None, args |-> NoArgs]

\* the ice_sheet arguments of the two handlers; the empty string is what the
\* handlers' `not ice_sheet` test is written for
IceSheetInputs ==
    { S_GREENLAND,
      <<"G","r","e","e","n","L","a","n","d">>,
      <<"g","r","e","e","n","l","a","n","d">>,
      <<"a","n","t","a","r","c","t","i","c","a">>,
      <<"m","a","r","s">>,
      <<>>,
      <<" ">>,
      <<" ", "\t">> }

\* the period query values a caller sends; None is a request without ?period=
PeriodInputs ==
    { None,
      <<>>,
      <<" ", " ">>,
      S_ANNUAL,
      <<"a","n","n","u","a","l">>,
      <<"D","e","c","a","d","e">>,
      S_CENTURY,
      <<"w","e","e","k","l","y">> }

\* arguments of a direct call: the members and a value outside each table
CalculateArgs ==
    { <<"GREENLAND", "ANNUAL">>, <<"ANTARCTICA", "CENTURY">>,
      <<"MARS", "ANNUAL">>, <<"GREENLAND", "WEEKLY">>, <<"MARS", "WEEKLY">> }

AllRequests ==
    { Details(i) : i \in IceSheetInputs }
    \cup { Visualization(i, p) : i \in IceSheetInputs, p \in PeriodInputs }
    \cup { Health, Root }
    \cup { Calculate(a[1], a[2]) : a \in CalculateArgs }

\* the requests of the concurrent specification
ConcurrentRequests ==
    { Visualization(S_GREENLAND, S_ANNUAL),
      Visualization(<<"G","r","e","e","n","L","a","n","d">>, <<"a","n","n","u","a","l">>),
      Visualization(<<"g","r","e","e","n","l","a","n","d">>, S_ANNUAL),
      Visualization(<<"m","a","r","s">>, S_ANNUAL),
      Details(S_ANTARCTICA),
      Details(<<"a","n","t","a","r","c","t","i","c","a">>),
      Details(<<"m","a","r","s">>),
      Health, Root,
      Calculate("MARS", "ANNUAL") }

----------------------------------------------------------------------------
(* State *)

NoOutcome == Raise("unset")

NoLocal ==
    [ice_sheet_type |-> "unset", time_period |-> "unset", tmp |-> 0,
     request_id |-> 0, outcome |-> NoOutcome,
     total_requests |-> 0, current_concurrent |-> 0]

NoResponse == [status |-> 0, body |-> [none |-> TRUE]]

Init ==
    /\ request_counter = 0
    /\ concurrent_counter = 0
    /\ counter_lock = 0
    /\ ICE_SHEET_DATA = IceSheetDataLiteral
    /\ TIME_PERIOD_SECONDS = TimePeriodSecondsLiteral
    /\ pc = [t \in AllThreads |-> "idle"]
    /\ req = [t \in AllThreads |-> NoRequest]
    /\ local = [t \in AllThreads |-> NoLocal]
    /\ resp = [t \in AllThreads |-> NoResponse]

shared == <<request_counter, concurrent_counter, counter_lock>>
tables == <<ICE_SHEET_DATA, TIME_PERIOD_SECONDS>>

\* the thread returns `response`
Finish(t, response) ==
    /\ resp' = [resp EXCEPT ![t] = response]
    /\ pc' = [pc EXCEPT ![t] = "done"]

\* create_error_response(error_type, message, request.path) with status 400/500
ErrorResponse(status, error_type, text, value, ice_sheet, endpoint, now) ==
    [status |-> status,
     body |-> [error |-> error_type,
               message |-> [text |-> text, value |-> value],
               path |-> [ice_sheet |-> ice_sheet, endpoint |-> endpoint],
               timestamp |-> now]]

----------------------------------------------------------------------------
(* A request arrives and is dispatched to its handler *)

Receive(t) ==
    /\ t \in Threads
    /\ pc[t] = "idle"
    /\ \E r \in ConcurrentRequests : req' = [req EXCEPT ![t] = r]
    /\ pc' = [pc EXCEPT ![t] = "handler"]
    /\ UNCHANGED <<shared, tables, local, resp>>

\* one client sending its requests one after another
ReceiveSeq(t) ==
    /\ t \in Clients
    /\ pc[t] = "idle"
    /\ \A u \in Clients : u < t => pc[u] = "done"
    /\ \E r \in AllRequests : req' = [req EXCEPT ![t] = r]
    /\ pc' = [pc EXCEPT ![t] = "handler"]
    /\ UNCHANGED <<shared, tables, local, resp>>

----------------------------------------------------------------------------
(* get_detail_statistics *)

DetailsResponse(ice_sheet, now) ==
    IF IsBlank(ice_sheet)
    THEN ErrorResponse(400, "INVALID_INPUT",
                       "Ice sheet parameter cannot be null or empty", <<>>,
                       ice_sheet, "details", now)
    ELSE LET ice_sheet_type == IceSheetType(Upper(ice_sheet))
         IN  IF ice_sheet_type = "ValueError"
             THEN ErrorResponse(400, "INVALID_ICE_SHEET",
                                "Invalid ice sheet type", ice_sheet,
                                ice_sheet, "details", now)
             ELSE LET base == get_base_data(ice_sheet_type)
                  IN  IF ~base.ok
                      THEN ErrorResponse(500, "INTERNAL_ERROR",
                                         "An unexpected error occurred", <<>>,
                                         ice_sheet, "details", now)
                      ELSE [status |-> 200,
                            body |-> [currentSize |-> base.value.size_km2,
                                      ambientTemperature |->
                                          base.value.ambient_temperature,
                                      meltingRate |->
                                          base.value.melting_rate_kg_per_second]]

get_detail_statistics(t) ==
    /\ pc[t] = "handler"
    /\ req[t].kind = "details"
    /\ \E now \in 0..MaxTime : Finish(t, DetailsResponse(req[t].ice_sheet, now))
    /\ UNCHANGED <<shared, tables, req, local>>

----------------------------------------------------------------------------
(* root *)

root(t) ==
    /\ pc[t] = "handler"
    /\ req[t].kind = "root"
    /\ Finish(t, [status |-> 200,
                  body |-> [message |-> "Ice Sheet Visualization API",
                            status |-> "running"]])
    /\ UNCHANGED <<shared, tables, req, local>>

----------------------------------------------------------------------------
(* get_visualization_statistics *)

Rejected(error_type, text, value) ==
    [error |-> error_type, text |-> text, value |-> value,
     ice_sheet_type |-> "unset", time_period |-> "unset"]
Accepted(ice_sheet_type, time_period) ==
    [error |-> "none", text |-> "", value |-> <<>>,
     ice_sheet_type |-> ice_sheet_type, time_period |-> time_period]

\* mutant: each parameter checked and parsed in turn, ice sheet first
VisualizationChecks_ParamByParam(ice_sheet, period) ==
    IF IsBlank(ice_sheet)
    THEN Rejected("INVALID_INPUT",
                  "Ice sheet parameter cannot be null or empty", <<>>)
    ELSE LET ice_sheet_type == IceSheetType(Upper(ice_sheet))
         IN  IF ice_sheet_type = "ValueError"
             THEN Rejected("INVALID_PARAMETER", "Invalid ice sheet type", ice_sheet)
             ELSE IF IsBlank(period)
             THEN Rejected("INVALID_INPUT",
                           "Period parameter cannot be null or empty", <<>>)
             ELSE LET time_period == TimePeriod(Upper(period))
                  IN  IF time_period = "ValueError"
                      THEN Rejected("INVALID_PARAMETER", "Invalid time period",
                                    period)
                      ELSE Accepted(ice_sheet_type, time_period)

\* the four checks before the calculation, in the order of the code
VisualizationChecks(ice_sheet, period) ==
    IF IsBlank(ice_sheet)
    THEN Rejected("INVALID_INPUT",
                  "Ice sheet parameter cannot be null or empty", <<>>)
    ELSE IF IsBlank(period)
    THEN Rejected("INVALID_INPUT",
                  "Period parameter cannot be null or empty", <<>>)
    ELSE LET ice_sheet_type == IceSheetType(Upper(ice_sheet))
         IN  IF ice_sheet_type = "ValueError"
             THEN Rejected("INVALID_PARAMETER", "Invalid ice sheet type", ice_sheet)
             ELSE LET time_period == TimePeriod(Upper(period))
                  IN  IF time_period = "ValueError"
                      THEN Rejected("INVALID_PARAMETER", "Invalid time period",
                                    period)
                      ELSE Accepted(ice_sheet_type, time_period)

\* the handler up to the call of calculate_mass_loss
get_visualization_statistics(t) ==
    /\ pc[t] = "handler"
    /\ req[t].kind = "visualization"
    /\ LET c == VisualizationChecks(req[t].ice_sheet, req[t].period)
       IN  IF c.error # "none"
           THEN /\ \E now \in 0..MaxTime :
                      Finish(t, ErrorResponse(400, c.error, c.text, c.value,
                                              req[t].ice_sheet, "visualization",
                                              now))
                /\ UNCHANGED local
           ELSE /\ local' = [local EXCEPT ![t].ice_sheet_type = c.ice_sheet_type,
                                          ![t].time_period = c.time_period]
                /\ pc' = [pc EXCEPT ![t] = "inc_acquire"]
                /\ UNCHANGED resp
    /\ UNCHANGED <<shared, tables, req>>

\* a caller inside the process invoking calculate_mass_loss(args)
call_calculate_mass_loss(t) ==
    /\ pc[t] = "handler"
    /\ req[t].kind = "calculate"
    /\ local' = [local EXCEPT ![t].ice_sheet_type = req[t].args[1],
                              ![t].time_period = req[t].args[2]]
    /\ pc' = [pc EXCEPT ![t] = "inc_acquire"]
    /\ UNCHANGED <<shared, tables, req, resp>>

----------------------------------------------------------------------------
(* calculate_mass_loss: increment_counters(), the try block, the finally    *)
(* clause with decrement_concurrent().  `x += 1` on a global is a load and  *)
(* a store.                                                                 *)

\* counter_lock.acquire() succeeds
CanAcquire(t) == counter_lock = 0

\* mutant: increment_counters without `with counter_lock`
IncAcquire_NoLock(t) ==
    /\ pc[t] = "inc_acquire"
    /\ pc' = [pc EXCEPT ![t] = "inc_load_request"]
    /\ UNCHANGED <<shared, tables, req, local, resp>>

IncAcquire(t) ==
    /\ pc[t] = "inc_acquire"
    /\ CanAcquire(t)
    /\ counter_lock' = t
    /\ pc' = [pc EXCEPT ![t] = "inc_load_request"]
    /\ UNCHANGED <<request_counter, concurrent_counter, tables, req, local, resp>>

IncLoadRequest(t) ==
    /\ pc[t] = "inc_load_request"
    /\ local' = [local EXCEPT ![t].tmp = request_counter]
    /\ pc' = [pc EXCEPT ![t] = "inc_store_request"]
    /\ UNCHANGED <<shared, tables, req, resp>>

IncStoreRequest(t) ==
    /\ pc[t] = "inc_store_request"
    /\ request_counter' = local[t].tmp + 1
    /\ pc' = [pc EXCEPT ![t] = "inc_load_concurrent"]
    /\ UNCHANGED <<concurrent_counter, counter_lock, tables, req, local, resp>>

IncLoadConcurrent(t) ==
    /\ pc[t] = "inc_load_concurrent"
    /\ local' = [local EXCEPT ![t].tmp = concurrent_counter]
    /\ pc' = [pc EXCEPT ![t] = "inc_store_concurrent"]
    /\ UNCHANGED <<shared, tables, req, resp>>

IncStoreConcurrent(t) ==
    /\ pc[t] = "inc_store_concurrent"
    /\ concurrent_counter' = local[t].tmp + 1
    /\ pc' = [pc EXCEPT ![t] = "inc_return"]
    /\ UNCHANGED <<request_counter, counter_lock, tables, req, local, resp>>

\* `return request_counter` inside the with block, then the lock is released
IncReturn(t) ==
    /\ pc[t] = "inc_return"
    /\ local' = [local EXCEPT ![t].request_id = request_counter, ![t].tmp = 0]
    /\ counter_lock' = 0
    /\ pc' = [pc EXCEPT ![t] = "try"]
    /\ UNCHANGED <<request_counter, concurrent_counter, tables, req, resp>>

\* mutant: the decrement at the end of the try block instead of in a finally
\* clause, so a raise leaves the function without it
TryBlock_NoFinally(t) ==
    /\ pc[t] = "try"
    /\ LET outcome == CalculateBody(local[t].ice_sheet_type, local[t].time_period)
       IN  /\ local' = [local EXCEPT ![t].outcome = outcome]
           /\ pc' = [pc EXCEPT ![t] = IF outcome.ok THEN "dec_acquire" ELSE "return"]
    /\ UNCHANGED <<shared, tables, req, resp>>

\* mutant: the result carries the number of the request
TryBlock_Numbered(t) ==
    /\ pc[t] = "try"
    /\ LET outcome == CalculateBody(local[t].ice_sheet_type, local[t].time_period)
       IN  local' = [local EXCEPT ![t].outcome =
                        IF outcome.ok
                        THEN Return([outcome.value EXCEPT
                                        !.iceSheetName = <<@, local[t].request_id>>])
                        ELSE outcome]
    /\ pc' = [pc EXCEPT ![t] = "dec_acquire"]
    /\ UNCHANGED <<shared, tables, req, resp>>

\* the try block: returns the result or raises; both lead to the finally clause
TryBlock(t) ==
    /\ pc[t] = "try"
    /\ local' = [local EXCEPT ![t].outcome =
                     CalculateBody(local[t].ice_sheet_type, local[t].time_period)]
    /\ pc' = [pc EXCEPT ![t] = "dec_acquire"]
    /\ UNCHANGED <<shared, tables, req, resp>>

\* mutant: decrement_concurrent without `with counter_lock`
DecAcquire_NoLock(t) ==
    /\ pc[t] = "dec_acquire"
    /\ pc' = [pc EXCEPT ![t] = "dec_load"]
    /\ UNCHANGED <<shared, tables, req, local, resp>>

DecAcquire(t) ==
    /\ pc[t] = "dec_acquire"
    /\ CanAcquire(t)
    /\ counter_lock' = t
    /\ pc' = [pc EXCEPT ![t] = "dec_load"]
    /\ UNCHANGED <<request_counter, concurrent_counter, tables, req, local, resp>>

DecLoad(t) ==
    /\ pc[t] = "dec_load"
    /\ local' = [local EXCEPT ![t].tmp = concurrent_counter]
    /\ pc' = [pc EXCEPT ![t] = "dec_store"]
    /\ UNCHANGED <<shared, tables, req, resp>>

DecStore(t) ==
    /\ pc[t] = "dec_store"
    /\ concurrent_counter' = local[t].tmp - 1
    /\ pc' = [pc EXCEPT ![t] = "dec_release"]
    /\ UNCHANGED <<request_counter, counter_lock, tables, req, local, resp>>

DecRelease(t) ==
    /\ pc[t] = "dec_release"
    /\ counter_lock' = 0
    /\ local' = [local EXCEPT ![t].tmp = 0]
    /\ pc' = [pc EXCEPT ![t] = "return"]
    /\ UNCHANGED <<request_counter, concurrent_counter, tables, req, resp>>

\* what the caller of calculate_mass_loss makes of its outcome
CallerResponse(request, outcome, now) ==
    IF request.kind = "visualization"
    THEN IF outcome.ok
         THEN [status |-> 200, body |-> outcome.value]
         ELSE ErrorResponse(500, "INTERNAL_ERROR", "An unexpected error occurred",
                            <<>>, request.ice_sheet, "visualization", now)
    ELSE IF outcome.ok
         THEN [status |-> 0, body |-> [returned |-> outcome.value]]
         ELSE [status |-> 0, body |-> [raised |-> outcome.value]]

\* calculate_mass_loss returns or re-raises; the handler answers
ReturnToCaller(t) ==
    /\ pc[t] = "return"
    /\ \E now \in 0..MaxTime :
          Finish(t, CallerResponse(req[t], local[t].outcome, now))
    /\ local' = [local EXCEPT ![t] = NoLocal]
    /\ UNCHANGED <<shared, tables, req>>

----------------------------------------------------------------------------
(* get_health_status *)

\* mutant: the counters read without `with counter_lock`
HealthAcquire_NoLock(t) ==
    /\ pc[t] = "handler"
    /\ req[t].kind = "health"
    /\ pc' = [pc EXCEPT ![t] = "health_total"]
    /\ UNCHANGED <<shared, tables, req, local, resp>>

HealthAcquire(t) ==
    /\ pc[t] = "handler"
    /\ req[t].kind = "health"
    /\ CanAcquire(t)
    /\ counter_lock' = t
    /\ pc' = [pc EXCEPT ![t] = "health_total"]
    /\ UNCHANGED <<request_counter, concurrent_counter, tables, req, local, resp>>

\* mutant: the health request counted as a request
HealthReadTotal_Counting(t) ==
    /\ pc[t] = "health_total"
    /\ request_counter' = request_counter + 1
    /\ local' = [local EXCEPT ![t].total_requests = request_counter + 1]
    /\ pc' = [pc EXCEPT ![t] = "health_concurrent"]
    /\ UNCHANGED <<concurrent_counter, counter_lock, tables, req, resp>>

HealthReadTotal(t) ==
    /\ pc[t] = "health_total"
    /\ local' = [local EXCEPT ![t].total_requests = request_counter]
    /\ pc' = [pc EXCEPT ![t] = "health_concurrent"]
    /\ UNCHANGED <<shared, tables, req, resp>>

HealthReadConcurrent(t) ==
    /\ pc[t] = "health_concurrent"
    /\ local' = [local EXCEPT ![t].current_concurrent = concurrent_counter]
    /\ pc' = [pc EXCEPT ![t] = "health_release"]
    /\ UNCHANGED <<shared, tables, req, resp>>

HealthRelease(t) ==
    /\ pc[t] = "health_release"
    /\ counter_lock' = 0
    /\ Finish(t, [status |-> 200,
                  body |-> [status |-> "UP",
                            totalCalculatorRequests |-> local[t].total_requests,
                            currentConcurrentRequests |->
                                local[t].current_concurrent,
                            totalDataServiceRequests |-> local[t].total_requests]])
    /\ local' = [local EXCEPT ![t] = NoLocal]
    /\ UNCHANGED <<request_counter, concurrent_counter, tables, req>>

----------------------------------------------------------------------------
(* Specifications *)

Step(t) ==
    \/ get_detail_statistics(t)
    \/ get_visualization_statistics(t)
    \/ root(t)
    \/ call_calculate_mass_loss(t)
    \/ IncAcquire(t)
    \/ IncLoadRequest(t)
    \/ IncStoreRequest(t)
    \/ IncLoadConcurrent(t)
    \/ IncStoreConcurrent(t)
    \/ IncReturn(t)
    \/ TryBlock(t)
    \/ DecAcquire(t)
    \/ DecLoad(t)
    \/ DecStore(t)
    \/ DecRelease(t)
    \/ ReturnToCaller(t)
    \/ HealthAcquire(t)
    \/ HealthReadTotal(t)
    \/ HealthReadConcurrent(t)
    \/ HealthRelease(t)

\* concurrent requests, thread per request
Next == \E t \in AllThreads : Receive(t) \/ Step(t)

Spec == Init /\ [][Next]_vars

\* one client, one request after another, every input
NextSeq == \E t \in AllThreads : ReceiveSeq(t) \/ Step(t)

SpecSeq == Init /\ [][NextSeq]_vars

----------------------------------------------------------------------------
(* Vocabulary of the properties, defined apart from the handlers' operators *)

Done(t) == pc[t] = "done"
Quiescent == \A t \in AllThreads : pc[t] \in {"idle", "done"}

\* t has entered calculate_mass_loss and stored the incremented total
CountedPositions ==
    {"inc_load_concurrent", "inc_store_concurrent", "inc_return", "try",
     "dec_acquire", "dec_load", "dec_store", "dec_release", "return"}
\* t has stored the incremented in-flight count and not yet the decremented one
InFlightPositions == {"inc_return", "try", "dec_acquire", "dec_load", "dec_store"}
\* t has stored the decremented in-flight count
FinishedPositions == {"dec_release", "return"}

\* a completed request that went through calculate_mass_loss
CompletedCalculation(t) ==
    /\ Done(t)
    /\ \/ req[t].kind = "calculate"
       \/ req[t].kind = "visualization" /\ resp[t].status \in {200, 500}

\* t is inside calculate_mass_loss
InCalculation(t) ==
    pc[t] \in {"inc_acquire", "inc_load_request", "inc_store_request"}
               \cup CountedPositions

Counted(t) == pc[t] \in CountedPositions \/ CompletedCalculation(t)
Finished(t) == pc[t] \in FinishedPositions \/ CompletedCalculation(t)

LetterIndex(c) ==
    IF \E i \in 1..26 : LowerCase[i] = c \/ UpperCase[i] = c
    THEN CHOOSE i \in 1..26 : LowerCase[i] = c \/ UpperCase[i] = c
    ELSE 0

\* two strings that differ only in letter case (or not at all)
SameModuloCase(a, b) ==
    /\ Len(a) = Len(b)
    /\ \A i \in 1..Len(a) :
          \/ a[i] = b[i]
          \/ LetterIndex(a[i]) # 0 /\ LetterIndex(a[i]) = LetterIndex(b[i])

Missing(x) == x = None
\* missing, empty or whitespace-only
Blank(x) == Missing(x) \/ \A i \in 1..Len(x) : x[i] \in {" ", "\t"}
KnownIceSheet(x) ==
    ~Blank(x) /\ \E c \in {S_GREENLAND, S_ANTARCTICA} : SameModuloCase(x, c)
KnownPeriod(x) ==
    ~Blank(x) /\ \E c \in {S_ANNUAL, S_DECADE, S_CENTURY} : SameModuloCase(x, c)

----------------------------------------------------------------------------
(* C1 *)

\* C1: with N requests inside calculate_mass_loss at once, in any
\* interleaving with health and other requests, concurrent_counter is never
\* above N (nor below 0), and whenever no request is in progress it is back
\* at 0
C1_InFlightBounded ==
    /\ concurrent_counter >= 0
    /\ concurrent_counter <=
          Cardinality({t \in AllThreads : InCalculation(t)})
    /\ Quiescent => concurrent_counter = 0

\* two visualization requests are in flight at once
C1_Witness ==
    /\ concurrent_counter = 2
    /\ \E t, u \in AllThreads :
          /\ t # u
          /\ req[t].kind = "visualization" /\ pc[t] \in InFlightPositions
          /\ req[u].kind = "visualization" /\ pc[u] \in InFlightPositions

----------------------------------------------------------------------------
(* C2 *)

\* a details or visualization request that passed validation and completed
ReachedStepFour(t) ==
    /\ Done(t)
    /\ \/ req[t].kind = "calculate"
       \/ req[t].kind \in {"visualization", "details"}
          /\ resp[t].status \in {200, 500}

\* C2 as stated: once k visualization or details requests that passed
\* validation have completed, request_counter is k
C2_AsStated ==
    Quiescent =>
        request_counter = Cardinality({t \in AllThreads : ReachedStepFour(t)})

\* C2 as amended: request_counter is the number of calls of
\* calculate_mass_loss that have stored their increment, failed calls
\* included; a details request is never one of them
C2_TotalCountsCalculations ==
    /\ request_counter = Cardinality({t \in AllThreads : Counted(t)})
    /\ \A t \in AllThreads : req[t].kind = "details" => ~Counted(t)

\* a details request succeeded and a calculation failed: the total is 1
C2_Witness ==
    /\ Quiescent
    /\ \E t, u \in AllThreads :
          /\ Done(t) /\ req[t].kind = "details" /\ resp[t].status = 200
          /\ Done(u) /\ req[u].kind = "calculate"
          /\ resp[u].body = [raised |-> "ValueError"]
    /\ request_counter = 1

----------------------------------------------------------------------------
(* C3 *)

NumFinished == Cardinality({t \in AllThreads : Finished(t)})

\* C3: the pair a health request holds when it has read both counters is the
\* pair the counters hold at that instant, with in-flight <= total and
\* total - in-flight the number of calculations finished by then; the pair
\* it reports keeps in-flight <= total
C3_HealthSnapshot ==
    /\ \A t \in AllThreads :
          pc[t] = "health_release" =>
              /\ local[t].total_requests = request_counter
              /\ local[t].current_concurrent = concurrent_counter
              /\ local[t].current_concurrent <= local[t].total_requests
              /\ local[t].total_requests - local[t].current_concurrent
                     = NumFinished
    /\ \A t \in AllThreads :
          (Done(t) /\ req[t].kind = "health") =>
              /\ resp[t].status = 200
              /\ resp[t].body.currentConcurrentRequests >= 0
              /\ resp[t].body.currentConcurrentRequests
                     <= resp[t].body.totalCalculatorRequests
              /\ resp[t].body.totalCalculatorRequests
                     - resp[t].body.currentConcurrentRequests <= NumFinished

\* a health request has read (1, 1) while a calculation is in flight
C3_Witness ==
    \E t, u \in AllThreads :
        /\ pc[t] = "health_release"
        /\ local[t].total_requests = 1 /\ local[t].current_concurrent = 1
        /\ pc[u] \in {"try", "dec_acquire"}

----------------------------------------------------------------------------
(* C4 *)

\* the error kinds that answer what is wrong with the parameters of t
ErrorKindsFor(t) ==
    (IF Blank(req[t].ice_sheet) THEN {"INVALID_INPUT"} ELSE {})
    \cup (IF ~Blank(req[t].ice_sheet) /\ ~KnownIceSheet(req[t].ice_sheet)
          THEN {IF req[t].kind = "details"
                THEN "INVALID_ICE_SHEET" ELSE "INVALID_PARAMETER"}
          ELSE {})
    \cup (IF req[t].kind = "visualization" /\ Blank(req[t].period)
          THEN {"INVALID_INPUT"} ELSE {})
    \cup (IF req[t].kind = "visualization" /\ ~Blank(req[t].period)
             /\ ~KnownPeriod(req[t].period)
          THEN {"INVALID_PARAMETER"} ELSE {})

\* C4: a details or visualization request with a parameter that is missing,
\* empty, whitespace-only or no enumerator value is answered 400, never 500,
\* with the error kind of (one of) its bad parameter(s)
C4_BadParameterIs400 ==
    \A t \in AllThreads :
        (Done(t) /\ req[t].kind \in {"details", "visualization"}
                 /\ ErrorKindsFor(t) # {}) =>
            /\ resp[t].status = 400
            /\ resp[t].body.error \in ErrorKindsFor(t)

\* a visualization request with a whitespace-only period was answered
\* 400 INVALID_INPUT
C4_Witness ==
    \E t \in AllThreads :
        /\ Done(t) /\ req[t].kind = "visualization"
        /\ req[t].ice_sheet = S_GREENLAND /\ req[t].period = <<" ", " ">>
        /\ resp[t].status = 400 /\ resp[t].body.error = "INVALID_INPUT"

----------------------------------------------------------------------------
(* C5 *)

FailingArgs(args) ==
    args[1] \notin IceSheetTypeMembers \/ args[2] \notin TimePeriodMembers

\* C5: when calculate_mass_loss fails after its increment, then as the
\* function is left the in-flight count is back at its value before the call
\* (0: the client's earlier requests are complete), the total keeps the +1 of
\* the call, and the caller gets the exception
C5_DecrementOnFailure ==
    \A t \in AllThreads :
        (req[t].kind = "calculate" /\ FailingArgs(req[t].args)) =>
            /\ pc[t] = "return" =>
                  /\ ~local[t].outcome.ok
                  /\ concurrent_counter = 0
                  /\ request_counter =
                        Cardinality({u \in AllThreads : Counted(u)})
                  /\ request_counter >= 1
            /\ Done(t) =>
                  resp[t].body =
                      [raised |-> IF req[t].args[1] \notin IceSheetTypeMembers
                                  THEN "ValueError" ELSE "KeyError"]

\* a call with a period outside the table raised KeyError and left 0 in flight
C5_Witness ==
    \E t \in AllThreads :
        /\ Done(t) /\ req[t].kind = "calculate"
        /\ req[t].args = <<"GREENLAND", "WEEKLY">>
        /\ resp[t].body = [raised |-> "KeyError"]
        /\ concurrent_counter = 0 /\ request_counter >= 1

----------------------------------------------------------------------------
(* C6 *)

\* periodSeconds * |meltingRate| and size - that, worked out by hand in
\* units of 10^-7
ExpectedVisualization(sheet, period) ==
    CASE sheet = S_ANTARCTICA /\ period = S_ANNUAL ->
           [meltingRate |-> [neg |-> TRUE, mag |-> <<2036, 6998, 2>>],
            massLoss |-> [neg |-> FALSE, mag |-> <<6000, 8729, 1534, 8514>>],
            initialSize |-> [neg |-> FALSE, mag |-> <<0, 0, 0, 140>>],
            finalSize |-> [neg |-> TRUE, mag |-> <<6000, 8729, 1534, 8374>>],
            iceSheetName |-> "Antarctica", period |-> S_ANNUAL]
      [] sheet = S_ANTARCTICA /\ period = S_DECADE ->
           [meltingRate |-> [neg |-> TRUE, mag |-> <<2036, 6998, 2>>],
            massLoss |-> [neg |-> FALSE, mag |-> <<0, 7296, 5348, 5141, 8>>],
            initialSize |-> [neg |-> FALSE, mag |-> <<0, 0, 0, 140>>],
            finalSize |-> [neg |-> TRUE, mag |-> <<0, 7296, 5348, 5001, 8>>],
            iceSheetName |-> "Antarctica", period |-> S_DECADE]
      [] sheet = S_ANTARCTICA /\ period = S_CENTURY ->
           [meltingRate |-> [neg |-> TRUE, mag |-> <<2036, 6998, 2>>],
            massLoss |-> [neg |-> FALSE, mag |-> <<0, 2960, 3487, 1415, 85>>],
            initialSize |-> [neg |-> FALSE, mag |-> <<0, 0, 0, 140>>],
            finalSize |-> [neg |-> TRUE, mag |-> <<0, 2960, 3487, 1275, 85>>],
            iceSheetName |-> "Antarctica", period |-> S_CENTURY]
      [] sheet = S_GREENLAND /\ period = S_ANNUAL ->
           [meltingRate |-> [neg |-> TRUE, mag |-> <<670, 4364>>],
            massLoss |-> [neg |-> FALSE, mag |-> <<0, 6912, 2521, 1376>>],
            initialSize |-> [neg |-> FALSE, mag |-> <<0, 0, 8000, 43>>],
            finalSize |-> [neg |-> TRUE, mag |-> <<0, 6912, 4521, 1332>>],
            iceSheetName |-> "Greenland", period |-> S_ANNUAL]
      [] sheet = S_GREENLAND /\ period = S_DECADE ->
           [meltingRate |-> [neg |-> TRUE, mag |-> <<670, 4364>>],
            massLoss |-> [neg |-> FALSE, mag |-> <<0, 9120, 5216, 3762, 1>>],
            initialSize |-> [neg |-> FALSE, mag |-> <<0, 0, 8000, 43>>],
            finalSize |-> [neg |-> TRUE, mag |-> <<0, 9120, 7216, 3718, 1>>],
            iceSheetName |-> "Greenland", period |-> S_DECADE]
      [] sheet = S_GREENLAND /\ period = S_CENTURY ->
           [meltingRate |-> [neg |-> TRUE, mag |-> <<670, 4364>>],
            massLoss |-> [neg |-> FALSE, mag |-> <<0, 1200, 2169, 7625, 13>>],
            initialSize |-> [neg |-> FALSE, mag |-> <<0, 0, 8000, 43>>],
            finalSize |-> [neg |-> TRUE, mag |-> <<0, 1200, 4169, 7581, 13>>],
            iceSheetName |-> "Greenland", period |-> S_CENTURY]

CanonicalIceSheet(x) ==
    CHOOSE c \in {S_GREENLAND, S_ANTARCTICA} : SameModuloCase(x, c)
CanonicalPeriod(x) ==
    CHOOSE c \in {S_ANNUAL, S_DECADE, S_CENTURY} : SameModuloCase(x, c)

\* C6: a visualization request with a valid ice sheet and period is answered
\* 200 with the signed rate, massLoss = seconds * |rate|, the size, finalSize
\* = size - massLoss, the display name and the enumerator's string form
C6_VisualizationResult ==
    \A t \in AllThreads :
        (Done(t) /\ req[t].kind = "visualization"
                 /\ KnownIceSheet(req[t].ice_sheet)
                 /\ KnownPeriod(req[t].period)) =>
            /\ resp[t].status = 200
            /\ resp[t].body =
                  ExpectedVisualization(CanonicalIceSheet(req[t].ice_sheet),
                                        CanonicalPeriod(req[t].period))
            /\ resp[t].body.meltingRate.neg
            /\ ~resp[t].body.massLoss.neg

\* antarctica over a century: finalSize = -85127534872.96
C6_Witness ==
    \E t \in AllThreads :
        /\ Done(t) /\ req[t].kind = "visualization"
        /\ req[t].ice_sheet = <<"a","n","t","a","r","c","t","i","c","a">>
        /\ req[t].period = S_CENTURY
        /\ resp[t].status = 200
        /\ resp[t].body.finalSize =
              [neg |-> TRUE, mag |-> <<0, 2960, 3487, 1275, 85>>]

----------------------------------------------------------------------------
(* C7 *)

\* C7: two details or two visualization requests whose parameters differ
\* only in letter case get the same status, the same error kind when
\* rejected and the same result when answered 200; the period of a result is
\* the upper-case enumerator name whatever the spelling sent
C7_CaseInsensitive ==
    /\ \A t, u \in AllThreads :
          (/\ Done(t) /\ Done(u)
           /\ req[t].kind \in {"details", "visualization"}
           /\ req[u].kind = req[t].kind
           /\ SameModuloCase(req[t].ice_sheet, req[u].ice_sheet)
           /\ SameModuloCase(req[t].period, req[u].period)) =>
              /\ resp[t].status = resp[u].status
              /\ resp[t].status = 200 => resp[t].body = resp[u].body
              /\ resp[t].status # 200 => resp[t].body.error = resp[u].body.error
    /\ \A t \in AllThreads :
          (Done(t) /\ req[t].kind = "visualization" /\ resp[t].status = 200) =>
              /\ resp[t].body.period \in {S_ANNUAL, S_DECADE, S_CENTURY}
              /\ SameModuloCase(resp[t].body.period, req[t].period)
    /\ \A t \in AllThreads :
          (Done(t) /\ req[t].kind \in {"details", "visualization"}
                   /\ KnownIceSheet(req[t].ice_sheet)
                   /\ (req[t].kind = "visualization" => KnownPeriod(req[t].period)))
              => resp[t].status = 200

\* two spellings of the same visualization request, both answered 200
C7_Witness ==
    \E t, u \in AllThreads :
        /\ Done(t) /\ Done(u)
        /\ req[t] = Visualization(S_GREENLAND, S_ANNUAL)
        /\ req[u] = Visualization(<<"G","r","e","e","n","L","a","n","d">>,
                                   <<"a","n","n","u","a","l">>)
        /\ resp[t].status = 200 /\ resp[u].status = 200
        /\ resp[u].body.period = S_ANNUAL

----------------------------------------------------------------------------
(* C8 *)

\* a response without the timestamp of its error envelope
WithoutTimestamp(r) ==
    IF r.status \in {400, 500}
    THEN [status |-> r.status, error |-> r.body.error,
          message |-> r.body.message, path |-> r.body.path]
    ELSE [status |-> r.status, error |-> "", message |-> r.body,
          path |-> <<>>]

\* C8: two details or visualization requests with the same parameters get
\* the same status and body (timestamp apart), whatever the counters were
\* and whatever ran beside them, and the two tables never change
C8_ResponseDependsOnParameters ==
    /\ \A t, u \in AllThreads :
          (/\ Done(t) /\ Done(u)
           /\ req[t].kind \in {"details", "visualization"}
           /\ req[u] = req[t]) =>
              WithoutTimestamp(resp[t]) = WithoutTimestamp(resp[u])
    /\ ICE_SHEET_DATA = IceSheetDataLiteral
    /\ TIME_PERIOD_SECONDS = TimePeriodSecondsLiteral

\* the same visualization request answered twice, as request 1 and request 2
C8_Witness ==
    \E t, u \in AllThreads :
        /\ t # u /\ Done(t) /\ Done(u)
        /\ req[t] = Visualization(S_GREENLAND, S_ANNUAL)
        /\ req[u] = req[t]
        /\ resp[t].status = 200
        /\ request_counter = 2

----------------------------------------------------------------------------
(* C9 *)

\* C9: in the visualization handler a blank parameter is answered
\* INVALID_INPUT even when the other one is unparseable (the ice sheet's
\* blank check first); with both non-blank the first unparseable one, ice
\* sheet before period, is answered INVALID_PARAMETER; the calculation is
\* entered only with both parameters non-blank and parseable
C9_ValidationOrder ==
    \A t \in AllThreads :
        req[t].kind = "visualization" =>
            /\ InCalculation(t) =>
                  KnownIceSheet(req[t].ice_sheet) /\ KnownPeriod(req[t].period)
            /\ Done(t) =>
                  IF Blank(req[t].ice_sheet)
                  THEN /\ resp[t].status = 400
                       /\ resp[t].body.error = "INVALID_INPUT"
                       /\ resp[t].body.message.text =
                             "Ice sheet parameter cannot be null or empty"
                  ELSE IF Blank(req[t].period)
                  THEN /\ resp[t].status = 400
                       /\ resp[t].body.error = "INVALID_INPUT"
                       /\ resp[t].body.message.text =
                             "Period parameter cannot be null or empty"
                  ELSE IF ~KnownIceSheet(req[t].ice_sheet)
                  THEN /\ resp[t].status = 400
                       /\ resp[t].body.error = "INVALID_PARAMETER"
                       /\ resp[t].body.message =
                             [text |-> "Invalid ice sheet type",
                              value |-> req[t].ice_sheet]
                  ELSE IF ~KnownPeriod(req[t].period)
                  THEN /\ resp[t].status = 400
                       /\ resp[t].body.error = "INVALID_PARAMETER"
                       /\ resp[t].body.message =
                             [text |-> "Invalid time period",
                              value |-> req[t].period]
                  ELSE resp[t].status = 200

\* an unparseable ice sheet with a missing period was answered INVALID_INPUT
C9_Witness ==
    \E t \in AllThreads :
        /\ Done(t) /\ req[t] = Visualization(<<"m","a","r","s">>, None)
        /\ resp[t].status = 400 /\ resp[t].body.error = "INVALID_INPUT"

----------------------------------------------------------------------------
(* C10 *)

\* the step of t is one of a request that does not reach the calculation
OutsideCalculationStep(t) ==
    /\ pc'[t] # pc[t]
    /\ \/ pc[t] = "idle"
       \/ req[t].kind \in {"health", "root", "details"}
       \/ req[t].kind = "visualization" /\ pc[t] = "handler"

\* C10: receiving a request, validating it, answering 400, a details
\* request, a health request and a root request leave request_counter and
\* concurrent_counter as they were, and request_counter never decreases
C10_CountersFrame ==
    [][ /\ request_counter' >= request_counter
        /\ \A t \in AllThreads :
              OutsideCalculationStep(t) =>
                  /\ request_counter' = request_counter
                  /\ concurrent_counter' = concurrent_counter ]_vars

\* a health request and a rejected visualization request are complete and
\* the counters are untouched
C10_Witness ==
    \E t, u \in AllThreads :
        /\ Done(t) /\ req[t].kind = "health"
        /\ Done(u) /\ req[u].kind = "visualization" /\ resp[u].status = 400
        /\ request_counter = 0 /\ concurrent_counter = 0

====
